---- MODULE Spec2Model ----
(***************************************************************************)
(* Model of src/server.ts: the TempMailAgent email pipeline (onEmail,      *)
(* generateEmailSummary, escapeHtml, sendTelegramMessage,                  *)
(* sendTelegramDocument) and the Telegram webhook handler (fetch).         *)
(*                                                                         *)
(* Text is a sequence of units.  Data that comes from outside (addresses,  *)
(* bodies, file names, model output) is kept character by character, each  *)
(* character a one-character string; the fixed pieces of the template      *)
(* literals of the source are kept as one unit each, without their emoji  *)
(* and rule characters.                                                    *)
(*                                                                         *)
(* An async function is cut at its awaits on external calls: one action    *)
(* runs the synchronous code from one await to the next.  An external      *)
(* call either resolves (fetch: with some HTTP status) or rejects.         *)
(* email.getRaw(), PostalMime.parse(raw) and response.text() of a Response *)
(* already received are taken to resolve: the first two hand onEmail its   *)
(* input, the third only feeds console.error.                              *)
(***************************************************************************)
EXTENDS Integers, Sequences, FiniteSets, TLC

VARIABLES
  env,         \* Env: TELEGRAM_BOT_TOKEN, Domain (env.DOMAIN)
  email,       \* per run of onEmail: the AgentEmail and what PostalMime.parse returns
  pc,          \* per run of onEmail: the await it is suspended at, or how it ended
  chatId,      \* per run: const chatId (server.ts:49)
  aiSummary,   \* per run: let aiSummary (server.ts:60)
  attIdx,      \* per run: position of the for-of loop over parsed.attachments
  calls,       \* external calls issued and returned, in order (AI.run, Telegram API)
  console,     \* console.warn / console.error lines, in order
  request,     \* the webhook Request being handled by fetch
  wpc,         \* where fetch is: "idle", "awaitDelete", "awaitWelcome", "responded"
  response     \* status of the Response fetch returned (0: none yet)

vars == <<env, email, pc, chatId, aiSummary, attIdx, calls, console, request, wpc, response>>

emailVars == <<email, pc, chatId, aiSummary, attIdx>>
webhookVars == <<request, wpc, response>>

----------------------------------------------------------------------------
(* Bounds of the model *)

MaxAddrLen == 4        \* longest recipient address, in characters, of the Resolver's inputs
MaxBodyLen == 22       \* longest run of non-blank characters in a body
MaxAttachments == 2    \* most attachments of one email
MaxPad == 1            \* most blanks before and after a body
MaxSubjectLen == 3     \* longest subject, in characters, of the escaping inputs

----------------------------------------------------------------------------
(* Strings *)

\* The sequences over alphabet A of length at most n.
StringsUpTo(A, n) == UNION { [1..k -> A] : k \in 0..n }

Repeat(c, n) == [i \in 1..n |-> c]

\* String.prototype.substring(0, n)
Substring0(s, n) == SubSeq(s, 1, IF Len(s) < n THEN Len(s) ELSE n)

\* String.prototype.toLowerCase, on the letters the model uses
LowerChar(c) ==
  CASE c = "A" -> "a"
    [] c = "B" -> "b"
    [] OTHER -> c

toLowerCase(s) == [i \in 1..Len(s) |-> LowerChar(s[i])]

\* White space and line terminators, as String.prototype.trim strips them
IsSpace(c) == c \in {" ", "\t", "\n"}

RECURSIVE TrimStart(_)
TrimStart(s) ==
  IF s # <<>> /\ IsSpace(Head(s)) THEN TrimStart(Tail(s)) ELSE s

RECURSIVE TrimEnd(_)
TrimEnd(s) ==
  IF s # <<>> /\ IsSpace(s[Len(s)]) THEN TrimEnd(SubSeq(s, 1, Len(s) - 1)) ELSE s

\* String.prototype.trim
trim(s) == TrimEnd(TrimStart(s))

\* String.prototype.startsWith
startsWith(s, p) == Len(s) >= Len(p) /\ SubSeq(s, 1, Len(p)) = p

\* p occurs in s as a contiguous run of units
Contains(s, p) ==
  \E i \in 1..(Len(s) - Len(p) + 1) : SubSeq(s, i, i + Len(p) - 1) = p

\* String.prototype.replace(/c/g, by): every occurrence of the character c
RECURSIVE ReplaceAll(_, _, _)
\* is replaced by the units of by, left to right (the string is split in halves so
\* that the evaluation of a long text stays shallow)
ReplaceAll(s, c, by) ==
  IF s = <<>> THEN <<>>
  ELSE IF Len(s) = 1 THEN (IF s[1] = c THEN by ELSE s)
  ELSE LET half == Len(s) \div 2
       IN  ReplaceAll(SubSeq(s, 1, half), c, by)
             \o ReplaceAll(SubSeq(s, half + 1, Len(s)), c, by)

\* String(n) of an integer: decimal digits, "-" before a negative one
Digit(d) == CASE d = 0 -> "0" [] d = 1 -> "1" [] d = 2 -> "2" [] d = 3 -> "3"
              [] d = 4 -> "4" [] d = 5 -> "5" [] d = 6 -> "6" [] d = 7 -> "7"
              [] d = 8 -> "8" [] d = 9 -> "9"

RECURSIVE NatToString(_)
NatToString(n) ==
  IF n < 10 THEN <<Digit(n)>> ELSE NatToString(n \div 10) \o <<Digit(n % 10)>>

NumberToString(n) == IF n < 0 THEN <<"-">> \o NatToString(0 - n) ELSE NatToString(n)

----------------------------------------------------------------------------
(* escapeHtml, server.ts:115-122: five replace passes, "&" first *)

\* The five replacements with the one of "&" made last instead of first
escapeHtmlAmpLast(unsafe) ==
  ReplaceAll(ReplaceAll(ReplaceAll(ReplaceAll(ReplaceAll(unsafe,
      "<", <<"&", "l", "t", ";">>),
      ">", <<"&", "g", "t", ";">>),
      "\"", <<"&", "q", "u", "o", "t", ";">>),
      "'", <<"&", "#", "0", "3", "9", ";">>),
      "&", <<"&", "a", "m", "p", ";">>)

escapeHtml(unsafe) ==
  ReplaceAll(ReplaceAll(ReplaceAll(ReplaceAll(ReplaceAll(unsafe,
      "&", <<"&", "a", "m", "p", ";">>),
      "<", <<"&", "l", "t", ";">>),
      ">", <<"&", "g", "t", ";">>),
      "\"", <<"&", "q", "u", "o", "t", ";">>),
      "'", <<"&", "#", "0", "3", "9", ";">>)

----------------------------------------------------------------------------
(* Recipient Resolver, server.ts:40-49: toAddress.match(/\+(.+)@/)          *)

\* "." of a regular expression without the s flag: any character but a line terminator
IsDot(c) == c \notin {"\n", "\r"}

\* A match of /\+(.+)@/ that starts at i and ends at j: "+" at i, "@" at j, one or
\* more "." characters between.
MatchAt(s, i, j) ==
  /\ s[i] = "+"
  /\ s[j] = "@"
  /\ j >= i + 2
  /\ \A k \in (i + 1)..(j - 1) : IsDot(s[k])

MatchStarts(s) == { i \in 1..Len(s) : \E j \in 1..Len(s) : MatchAt(s, i, j) }

Min(S) == CHOOSE x \in S : \A y \in S : x <= y
Max(S) == CHOOSE x \in S : \A y \in S : x >= y

\* The match taken from the last "+" instead of the first
matchRightmostPlus(s) ==
  IF MatchStarts(s) = {} THEN [found |-> FALSE, group |-> <<>>]
  ELSE LET i == Max(MatchStarts(s))
           j == Max({ k \in 1..Len(s) : MatchAt(s, i, k) })
       IN  [found |-> TRUE, group |-> SubSeq(s, i + 1, j - 1)]

\* /(.+)@/: the "+" left out of the pattern
matchNoPlus(s) ==
  LET A == { j \in 2..Len(s) : s[j] = "@" /\ \A k \in 1..(j - 1) : IsDot(s[k]) }
  IN  IF A = {} THEN [found |-> FALSE, group |-> <<>>]
      ELSE [found |-> TRUE, group |-> SubSeq(s, 1, Max(A) - 1)]

\* /\+(.*)@/: a group that may be empty
matchEmptyGroup(s) ==
  LET starts == { i \in 1..Len(s) : s[i] = "+" /\ \E j \in (i + 1)..Len(s) :
                    s[j] = "@" /\ \A k \in (i + 1)..(j - 1) : IsDot(s[k]) }
  IN  IF starts = {} THEN [found |-> FALSE, group |-> <<>>]
      ELSE LET i == Min(starts)
               j == Max({ k \in (i + 1)..Len(s) :
                            s[k] = "@" /\ \A l \in (i + 1)..(k - 1) : IsDot(s[l]) })
           IN  [found |-> TRUE, group |-> SubSeq(s, i + 1, j - 1)]

\* The match the engine reports: the leftmost start, and from it the longest (.+ is greedy).
match(s) ==
  IF MatchStarts(s) = {} THEN [found |-> FALSE, group |-> <<>>]
  ELSE LET i == Min(MatchStarts(s))
           j == Max({ k \in 1..Len(s) : MatchAt(s, i, k) })
       IN  [found |-> TRUE, group |-> SubSeq(s, i + 1, j - 1)]

\* const toAddress = email.to.toLowerCase()
toAddressOf(to) == toLowerCase(to)

----------------------------------------------------------------------------
(* Inputs of onEmail *)

Procs == {1, 2}                 \* concurrent runs of onEmail the runtime may start

\* Policy constants of the source
SummaryMinLen == 20             \* server.ts:61
SummaryInputMax == 2000         \* server.ts:96
snippetLength == 500            \* server.ts:65
PayloadTooLarge == 413          \* server.ts:170

\* HTTP statuses the Telegram API answers with in the model; response.ok is 200..299
Statuses == {200, 400, PayloadTooLarge}
ok(status) == status >= 200 /\ status <= 299

\* Outcome of an awaited fetch: it resolves with a Response, or it rejects
FetchOutcomes ==
  { [rejected |-> FALSE, status |-> st] : st \in Statuses }
  \cup { [rejected |-> TRUE, status |-> 0] }

\* What env.AI.run does: it rejects, or resolves with null, with an object without a
\* response, with one whose response is no string, or with one whose response is text.
AiTexts == { <<>>, <<" ">>, <<"S">>, <<" ", "S", "<", " ">> }
AiOutcomes ==
  { [kind |-> k, response |-> <<>>] : k \in {"reject", "null", "noField", "nonString"} }
  \cup { [kind |-> "text", response |-> t] : t \in AiTexts }

\* Attachments as PostalMime returns them; filename <<>> and mimeType "" stand for a
\* missing (or empty, equally falsy) field.
AttachmentPool ==
  { [filename |-> <<"f">>, mimeType |-> "text/plain", byteLength |-> 1536],
    [filename |-> <<"a", "&", "b">>, mimeType |-> "", byteLength |-> 5],
    [filename |-> <<>>, mimeType |-> "image/png", byteLength |-> 0] }

AttachmentLists == StringsUpTo(AttachmentPool, MaxAttachments)

\* Bodies: blanks, a run of n characters, blanks
Body(lead, n, trail) == Repeat(" ", lead) \o Repeat("x", n) \o Repeat(" ", trail)
Bodies == { Body(l, n, t) : l \in 0..MaxPad, n \in 0..MaxBodyLen, t \in 0..MaxPad }

HtmlBodies ==
  { <<>>,
    <<"<", "b", ">", "h", "i", "<", "/", "b", ">">>,
    <<"h", "<", "b">>,
    <<" ", "<", "p", ">", " ">> }

\* Recipient addresses of the pipeline runs
RoutedTo == <<"a", "+", "7", "@", "d">>
ToAddresses ==
  { RoutedTo,
    <<"a", "@", "d">>,
    <<"A", "+", "B", "7", "@", "D">>,
    <<"a", "+", "b", "+", "7", "@", "d">>,
    <<"a", "+", "@", "d">> }

BotTokens == { <<>>, <<"T">> }   \* <<>>: TELEGRAM_BOT_TOKEN unset or empty

MkEmail(to, subject, text, html, atts) ==
  [from |-> <<"s", "<", "@", "x">>, to |-> to, subject |-> subject,
   text |-> text, html |-> html, attachments |-> atts]

LongBody == Body(0, SummaryMinLen + 1, 0)

\* The emails a run is started with: every recipient address and subject, every body,
\* every list of attachments.
EmailsByAddress ==
  { MkEmail(to, subj, b, <<>>, atts) :
      to \in ToAddresses, subj \in { <<>>, <<"R", "&">> },
      b \in { <<"h", "i">>, LongBody }, atts \in StringsUpTo(AttachmentPool, 1) }

EmailsByBody ==
  { MkEmail(RoutedTo, <<>>, b, <<>>, atts) :
      b \in Bodies, atts \in { <<>>, <<CHOOSE a \in AttachmentPool : a.filename = <<"f">> >> } }
  \cup { MkEmail(RoutedTo, <<>>, <<>>, h, <<>>) : h \in HtmlBodies }

EmailsByAttachments ==
  { MkEmail(RoutedTo, <<>>, <<"h", "i">>, <<>>, atts) : atts \in AttachmentLists }

\* Bodies whose trimmed length is one below, at and one above snippetLength
EmailsBySnippet ==
  { MkEmail(RoutedTo, <<>>, Body(l, n, t), <<>>, <<>>) :
      l \in {0, MaxPad}, t \in {0, MaxPad},
      n \in {snippetLength - 1, snippetLength, snippetLength + 1} }

\* Subjects over the five characters escapeHtml replaces and one it leaves alone
SubjectAlphabet == {"&", "<", ">", "\"", "'", "a"}
EmailsBySubject ==
  { MkEmail(RoutedTo, subj, <<"h", "i">>, <<>>, <<>>) :
      subj \in StringsUpTo(SubjectAlphabet, MaxSubjectLen) }

Emails ==
  EmailsByAddress \cup EmailsByBody \cup EmailsByAttachments \cup EmailsBySnippet
    \cup EmailsBySubject

NoEmail == MkEmail(<<>>, <<>>, <<>>, <<>>, <<>>)

----------------------------------------------------------------------------
(* Content Normalizer, server.ts:56-66 *)

\* The rest of s after a tag opened by "<": [^>]* and then an optional ">"
RECURSIVE SkipTag(_)
SkipTag(s) ==
  IF s = <<>> THEN <<>>
  ELSE IF Head(s) = ">" THEN Tail(s)
  ELSE SkipTag(Tail(s))

\* html.replace(/<[^>]*>?/gm, '')
RECURSIVE stripTags(_)
stripTags(s) ==
  IF s = <<>> THEN <<>>
  ELSE IF Head(s) = "<" THEN stripTags(SkipTag(Tail(s)))
  ELSE <<Head(s)>> \o stripTags(Tail(s))

\* parsed.text || parsed.html?.replace(/<[^>]*>?/gm, '') || ""
textBodyOf(parsed) ==
  IF parsed.text # <<>> THEN parsed.text ELSE stripTags(parsed.html)

cleanTextBodyOf(parsed) == trim(textBodyOf(parsed))

TruncationMarker == <<"...\n[Message Truncated]">>

\* A snippet that marks a text of exactly snippetLength characters as truncated
snippetMarkedAtBound(cleanTextBody) ==
  Substring0(cleanTextBody, snippetLength)
    \o (IF Len(cleanTextBody) >= snippetLength THEN TruncationMarker ELSE <<>>)

\* const snippet = cleanTextBody.substring(0, snippetLength) + (... ? marker : "")
snippetOf(cleanTextBody) ==
  Substring0(cleanTextBody, snippetLength)
    \o (IF Len(cleanTextBody) > snippetLength THEN TruncationMarker ELSE <<>>)

----------------------------------------------------------------------------
(* Summarizer, server.ts:59-63 and 93-113 *)

NoContentSummary == <<"No content available to summarize.">>
NoResultSummary == <<"Summary generation yielded no result.">>
UnavailableSummary == <<"Automated summary temporarily unavailable.">>

\* The threshold test with >= for >
summarizeAtOrAbove(cleanTextBody) == Len(cleanTextBody) >= SummaryMinLen

\* if (cleanTextBody.length > 20)
summarize(cleanTextBody) == Len(cleanTextBody) > SummaryMinLen

\* The request of env.AI.run: the first 2000 characters of the text
aiRequest(text) ==
  [model |-> "@cf/zai-org/glm-4.7-flash", user |-> Substring0(text, SummaryInputMax)]

\* What generateEmailSummary returns once AI.run has settled with outcome o
generateEmailSummary(o) ==
  CASE o.kind = "reject" -> UnavailableSummary       \* catch (error)
    [] o.kind = "nonString" -> UnavailableSummary    \* .trim is not a function: caught
    [] o.kind = "text" /\ o.response # <<>> -> trim(o.response)
    [] OTHER -> NoResultSummary                      \* null, no response, ""

\* generateEmailSummary without its catch block
summaryThrowsOnReject(o) == o.kind = "reject"

\* Whether an error leaves generateEmailSummary: its whole body is in the try block
summaryThrows(o) == FALSE

----------------------------------------------------------------------------
(* Notification Formatter, server.ts:67-80 *)

orElse(s, fallback) == IF s # <<>> THEN s ELSE fallback

messagePayloadOf(e, summary) ==
  LET toAddress == toAddressOf(e.to)
      clean == cleanTextBodyOf(e)
  IN  <<"<b>New Email Received!</b>\n\n<b>From:</b> <code>">>
      \o escapeHtml(e.from)
      \o <<"</code>\n<b>To:</b> <code>">>
      \o escapeHtml(toAddress)
      \o <<"</code>\n<b>Subject:</b> <i>">>
      \o escapeHtml(orElse(e.subject, <<"No Subject">>))
      \o <<"</i>\n<b>Attachments:</b> ">>
      \o NumberToString(Len(e.attachments))
      \o <<"\n\n<b>AI Summary:</b>\n<i>">>
      \o escapeHtml(summary)
      \o <<"</i>\n\n\n<b>Message:</b>\n<pre>">>
      \o escapeHtml(orElse(snippetOf(clean), <<"No readable text content.">>))
      \o <<"</pre>">>

----------------------------------------------------------------------------
(* Dispatcher requests, server.ts:124-178 *)

\* The body of the sendMessage request of sendTelegramMessage
sendMessageRequest(chat, text) ==
  [chat_id |-> chat, text |-> text, parse_mode |-> "HTML",
   reply_markup |-> "Dismiss Email:dismiss"]

fileNameOf(attachment) == orElse(attachment.filename, <<"unnamed_attachment.bin">>)

mimeTypeOf(attachment) ==
  IF attachment.mimeType # "" THEN attachment.mimeType ELSE "application/octet-stream"

\* (byteLength / 1024).toFixed(2)
toFixed2Kb(byteLength) ==
  LET h == (byteLength * 100 + 512) \div 1024
  IN  NumberToString(h \div 100) \o <<".", Digit((h \div 10) % 10), Digit(h % 10)>>

captionOf(attachment) ==
  <<"<b>Attachment:</b> <i>">> \o escapeHtml(fileNameOf(attachment))
    \o <<"</i>\n<b>Size:</b> ">> \o toFixed2Kb(attachment.byteLength) \o <<" KB">>

\* The form of the sendDocument request of sendTelegramDocument
sendDocumentRequest(chat, attachment) ==
  [chat_id |-> chat, document |-> fileNameOf(attachment),
   type |-> mimeTypeOf(attachment), caption |-> captionOf(attachment),
   parse_mode |-> "HTML"]

\* The text of the notice sent when sendDocument answers 413
oversizeNotice(attachment) ==
  <<"<b>Failed to send attachment.</b>\nFile <i>">>
    \o escapeHtml(fileNameOf(attachment))
    \o <<"</i> exceeds Telegram's 50MB Bot API limit.">>

\* The notice sent on every failure status
sendsNoticeOnAnyFailure(status) == ~ok(status)

\* if (response.status === 413)
sendsNotice(status) == status = PayloadTooLarge

\* One entry of the log of external calls.  ev is "call" when the call is issued,
\* "resolve" or "reject" when the awaited promise settles; by is the run of onEmail
\* (0 for the webhook handler); status is the HTTP status of a resolved fetch and
\* out what AI.run settled with.
Entry(ev, api, by, req, status, out) ==
  [ev |-> ev, api |-> api, by |-> by, req |-> req, status |-> status, out |-> out]

NoOutcome == [kind |-> "", response |-> <<>>]

Issued(api, by, req) == Entry("call", api, by, req, 0, NoOutcome)

Settled(api, by, req, o) ==
  Entry(IF o.rejected THEN "reject" ELSE "resolve", api, by, req, o.status, NoOutcome)

ConsoleLine(by, level, what, status) ==
  [by |-> by, level |-> level, what |-> what, status |-> status]

\* The call run p is suspended at: the last one it issued
PendingCall(log, p) ==
  LET I == { i \in 1..Len(log) : log[i].by = p /\ log[i].ev = "call" }
  IN  log[Max(I)]

----------------------------------------------------------------------------
(* onEmail, server.ts:36-91 *)

\* await this.sendTelegramMessage(chatId, messagePayload, telegramToken), up to its fetch
IssueTextSend(p, chat, summary, log) ==
  /\ calls' = Append(log, Issued("sendMessage", p,
                 sendMessageRequest(chat, messagePayloadOf(email[p], summary))))
  /\ pc' = [pc EXCEPT ![p] = "awaitText"]

\* The loop with chatId kept in a field of the agent instead of a local: every run
\* reads what the run that routed last (here the highest-numbered) stored
NextAttachmentSharedChat(p, i, log) ==
  LET last == Max({ q \in Procs : chatId[q] # <<>> })
  IN  IF i < Len(email[p].attachments)
      THEN /\ calls' = Append(log, Issued("sendDocument", p,
                          sendDocumentRequest(chatId[last], email[p].attachments[i + 1])))
           /\ attIdx' = [attIdx EXCEPT ![p] = i + 1]
           /\ pc' = [pc EXCEPT ![p] = "awaitDoc"]
      ELSE /\ calls' = log
           /\ attIdx' = [attIdx EXCEPT ![p] = i]
           /\ pc' = [pc EXCEPT ![p] = "returned"]

\* The for-of loop after attachment i: sendTelegramDocument for the next one, up to
\* its fetch, or the end of onEmail.
NextAttachment(p, i, log) ==
  IF i < Len(email[p].attachments)
  THEN /\ calls' = Append(log, Issued("sendDocument", p,
                      sendDocumentRequest(chatId[p], email[p].attachments[i + 1])))
       /\ attIdx' = [attIdx EXCEPT ![p] = i + 1]
       /\ pc' = [pc EXCEPT ![p] = "awaitDoc"]
  ELSE /\ calls' = log
       /\ attIdx' = [attIdx EXCEPT ![p] = i]
       /\ pc' = [pc EXCEPT ![p] = "returned"]

\* The notice sent without await: the loop goes on while its fetch is in flight
IssueNoticeUnawaited(p, attachment, log) ==
  NextAttachment(p, attIdx[p],
                 Append(log, Issued("sendMessage", p,
                          sendMessageRequest(chatId[p], oversizeNotice(attachment)))))

\* await this.sendTelegramMessage(chatId, <notice>, token) of sendTelegramDocument,
\* up to its fetch (171-175)
IssueNotice(p, attachment, log) ==
  /\ calls' = Append(log, Issued("sendMessage", p,
                 sendMessageRequest(chatId[p], oversizeNotice(attachment))))
  /\ pc' = [pc EXCEPT ![p] = "awaitNotice"]
  /\ UNCHANGED attIdx

\* A rejected fetch is caught nowhere in onEmail: the error leaves the handler
FetchRejected(p, log) ==
  /\ calls' = log
  /\ pc' = [pc EXCEPT ![p] = "threwFetch"]
  /\ UNCHANGED attIdx

\* A credential test that lets every run proceed
tokenNeverMissing(telegramToken) == FALSE

\* if (!telegramToken): the credential is undefined or the empty string
tokenMissing(telegramToken) == telegramToken = <<>>

\* Lines 36-63, and 65-83 when the summarizer is skipped: up to the first external call
onEmail(p) ==
  /\ pc[p] = "start"
  /\ LET toAddress == toAddressOf(email[p].to)
         m == match(toAddress)
         clean == cleanTextBodyOf(email[p])
     IN  IF ~m.found
         THEN /\ console' = Append(console, ConsoleLine(p, "warn", "Dropped email", 0))
              /\ pc' = [pc EXCEPT ![p] = "dropped"]
              /\ UNCHANGED <<chatId, aiSummary, calls>>
         ELSE /\ chatId' = [chatId EXCEPT ![p] = m.group]
              /\ IF tokenMissing(env.TELEGRAM_BOT_TOKEN)
                 THEN /\ pc' = [pc EXCEPT ![p] = "threwConfig"]
                      /\ UNCHANGED <<aiSummary, calls>>
                 ELSE /\ aiSummary' = [aiSummary EXCEPT ![p] = NoContentSummary]
                      /\ IF summarize(clean)
                         THEN /\ calls' = Append(calls, Issued("AI.run", p, aiRequest(clean)))
                              /\ pc' = [pc EXCEPT ![p] = "awaitAI"]
                         ELSE IssueTextSend(p, m.group, NoContentSummary, calls)
              /\ UNCHANGED console
  /\ UNCHANGED <<env, email, attIdx, webhookVars>>

\* generateEmailSummary after its await (98-112), then onEmail 65-83
AiSettles(p) ==
  /\ pc[p] = "awaitAI"
  /\ \E o \in AiOutcomes :
       LET log == Append(calls, Entry(IF o.kind = "reject" THEN "reject" ELSE "resolve",
                                      "AI.run", p, PendingCall(calls, p).req, 0, o))
       IN  IF summaryThrows(o)
           THEN /\ calls' = log
                /\ pc' = [pc EXCEPT ![p] = "threwAI"]
                /\ UNCHANGED <<aiSummary, console>>
           ELSE /\ aiSummary' = [aiSummary EXCEPT ![p] = generateEmailSummary(o)]
                /\ console' = IF o.kind \in {"reject", "nonString"}
                               THEN Append(console,
                                      ConsoleLine(p, "error", "AI Summarization failed", 0))
                               ELSE console
                /\ IssueTextSend(p, chatId[p], generateEmailSummary(o), log)
  /\ UNCHANGED <<env, email, chatId, attIdx, webhookVars>>

\* sendTelegramMessage after its await (142-145), then onEmail 86-88
TextSendSettles(p) ==
  /\ pc[p] = "awaitText"
  /\ \E o \in FetchOutcomes :
       LET log == Append(calls, Settled("sendMessage", p, PendingCall(calls, p).req, o))
       IN  IF o.rejected
           THEN FetchRejected(p, log) /\ UNCHANGED console
           ELSE /\ console' = IF ok(o.status) THEN console
                               ELSE Append(console,
                                      ConsoleLine(p, "error", "sendMessage", o.status))
                /\ NextAttachment(p, 0, log)
  /\ UNCHANGED <<env, email, chatId, aiSummary, webhookVars>>

\* sendTelegramDocument after its await (168-177), then the loop of onEmail
DocumentSettles(p) ==
  /\ pc[p] = "awaitDoc"
  /\ \E o \in FetchOutcomes :
       LET log == Append(calls, Settled("sendDocument", p, PendingCall(calls, p).req, o))
           attachment == email[p].attachments[attIdx[p]]
       IN  IF o.rejected
           THEN FetchRejected(p, log) /\ UNCHANGED console
           ELSE IF ok(o.status)
           THEN NextAttachment(p, attIdx[p], log) /\ UNCHANGED console
           ELSE /\ console' = Append(console,
                                 ConsoleLine(p, "error", "sendDocument", o.status))
                /\ IF sendsNotice(o.status)
                   THEN IssueNotice(p, attachment, log)
                   ELSE NextAttachment(p, attIdx[p], log)
  /\ UNCHANGED <<env, email, chatId, aiSummary, webhookVars>>

\* sendTelegramMessage of the oversize notice after its await, then the loop of onEmail
NoticeSettles(p) ==
  /\ pc[p] = "awaitNotice"
  /\ \E o \in FetchOutcomes :
       LET log == Append(calls, Settled("sendMessage", p, PendingCall(calls, p).req, o))
       IN  IF o.rejected
           THEN FetchRejected(p, log) /\ UNCHANGED console
           ELSE /\ console' = IF ok(o.status) THEN console
                               ELSE Append(console,
                                      ConsoleLine(p, "error", "sendMessage", o.status))
                /\ NextAttachment(p, attIdx[p], log)
  /\ UNCHANGED <<env, email, chatId, aiSummary, webhookVars>>

----------------------------------------------------------------------------
(* Inputs of the webhook handler *)

\* A Request and the TelegramUpdate its body holds.
\*   json: "invalid" (request.json() rejects), "null", "scalar" (a number, a string
\*         or a boolean) or "object"
\*   cq:   callback_query is "absent", has no message ("noMessage"), has a message
\*         without chat ("noChat") or has message.chat.id and message.message_id ("full")
\*   text: message.text is "absent" (or empty), a "string" (textValue) or a truthy
\*         value that is no string ("nonString")
\*   msg:  message is "absent", has no chat ("noChat") or has chat.id ("full")
MkRequest(method, pathname, json, cq, data, cqChat, cqMsgId, msg, text, textValue, msgChat) ==
  [method |-> method, pathname |-> pathname, json |-> json,
   cq |-> cq, data |-> data, cqChat |-> cqChat, cqMsgId |-> cqMsgId,
   msg |-> msg, text |-> text, textValue |-> textValue, msgChat |-> msgChat]

StartCommand == <<"/", "s", "t", "a", "r", "t">>

ChatIds == {7, -100}
MessageIds == {99}
CallbackData == {"dismiss", "Dismiss", "other"}
MessageTexts ==
  { <<>>,
    StartCommand,
    <<" ">> \o StartCommand \o <<" ", "x">>,
    <<"/", "S", "t", "a", "r", "t">>,
    <<"/", "s", "t", "a", "r">>,
    <<"x">> \o StartCommand,
    <<"h", "i">> }

CallbackParts ==
  { <<"absent", "", 0, 0>> }
  \cup { <<k, d, 0, 0>> : k \in {"noMessage", "noChat"}, d \in CallbackData }
  \cup { <<"full", d, c, m>> : d \in CallbackData, c \in ChatIds, m \in MessageIds }

MessageParts ==
  { <<"absent", "absent", <<>>, 0>> }
  \cup { <<"noChat", "absent", <<>>, 0>>, <<"noChat", "nonString", <<>>, 0>> }
  \cup { <<"noChat", "string", t, 0>> : t \in MessageTexts }
  \cup { <<"full", k, <<>>, c>> : k \in {"absent", "nonString"}, c \in ChatIds }
  \cup { <<"full", "string", t, c>> : t \in MessageTexts, c \in ChatIds }

Updates ==
  { MkRequest("POST", "/webhook/telegram", "object", c[1], c[2], c[3], c[4],
              m[1], m[2], m[3], m[4]) : c \in CallbackParts, m \in MessageParts }

EmptyUpdate(method, pathname, json) ==
  MkRequest(method, pathname, json, "absent", "", 0, 0, "absent", "absent", <<>>, 0)

Requests ==
  Updates
  \cup { EmptyUpdate("POST", "/webhook/telegram", j) : j \in {"invalid", "null", "scalar"} }
  \cup { [u EXCEPT !.method = "GET"] : u \in { v \in Updates : v.cq = "full" } }
  \cup { [u EXCEPT !.pathname = "/"] : u \in { v \in Updates : v.msg = "full" } }

NoRequest == EmptyUpdate("", "", "none")

----------------------------------------------------------------------------
(* Specification of one run of onEmail *)

InitEnv == env \in { [TELEGRAM_BOT_TOKEN |-> t, Domain |-> <<"d">>] : t \in BotTokens }

InitWebhookIdle ==
  /\ request = NoRequest
  /\ wpc = "off"
  /\ response = 0

Init ==
  /\ InitEnv
  /\ \E e \in Emails : email = [p \in Procs |-> IF p = 1 THEN e ELSE NoEmail]
  /\ pc = [p \in Procs |-> IF p = 1 THEN "start" ELSE "off"]
  /\ chatId = [p \in Procs |-> <<>>]
  /\ aiSummary = [p \in Procs |-> <<>>]
  /\ attIdx = [p \in Procs |-> 0]
  /\ calls = <<>>
  /\ console = <<>>
  /\ InitWebhookIdle

Next ==
  \E p \in Procs :
    \/ onEmail(p)
    \/ AiSettles(p)
    \/ TextSendSettles(p)
    \/ DocumentSettles(p)
    \/ NoticeSettles(p)

Spec == Init /\ [][Next]_vars

----------------------------------------------------------------------------
(* Specification of the Recipient Resolver: onEmail run on every recipient address
   over a small alphabet, each with a long body and one attachment *)

AddrAlphabet == {"a", "B", "+", "@", "\n"}
AddressStrings == StringsUpTo(AddrAlphabet, MaxAddrLen)

InitResolver ==
  /\ InitEnv
  /\ \E to \in AddressStrings, a \in AttachmentPool :
       email = [p \in Procs |->
                  IF p = 1 THEN MkEmail(to, <<>>, LongBody, <<>>, <<a>>) ELSE NoEmail]
  /\ pc = [p \in Procs |-> IF p = 1 THEN "start" ELSE "off"]
  /\ chatId = [p \in Procs |-> <<>>]
  /\ aiSummary = [p \in Procs |-> <<>>]
  /\ attIdx = [p \in Procs |-> 0]
  /\ calls = <<>>
  /\ console = <<>>
  /\ InitWebhookIdle

SpecResolver == InitResolver /\ [][Next]_vars

----------------------------------------------------------------------------
(* Specification of two runs of onEmail whose steps interleave at their awaits *)

OtherRoutedTo == <<"b", "+", "8", "@", "d">>

\* Pairs of emails that differ in body and in attachments: one pair to the same
\* token, two to different tokens
ConcurrentEmails ==
  LET att(name) == CHOOSE a \in AttachmentPool : a.filename = name
  IN  { <<MkEmail(RoutedTo, <<>>, LongBody, <<>>, <<>>),
          MkEmail(RoutedTo, <<"R", "&">>, <<"y", "o">>, <<>>, <<att(<<>>)>>)>>,
        <<MkEmail(RoutedTo, <<>>, <<"h", "i">>, <<>>, <<att(<<"f">>), att(<<"a", "&", "b">>)>>),
          MkEmail(OtherRoutedTo, <<"R", "&">>, <<"y", "o">>, <<>>, <<>>)>>,
        <<MkEmail(RoutedTo, <<>>, <<"h", "i">>, <<>>, <<att(<<"f">>)>>),
          MkEmail(OtherRoutedTo, <<"R", "&">>, <<"y", "o">>, <<>>, <<att(<<>>)>>)>> }

InitConcurrent ==
  /\ InitEnv
  /\ \E es \in ConcurrentEmails : email = [p \in Procs |-> es[p]]
  /\ pc = [p \in Procs |-> "start"]
  /\ chatId = [p \in Procs |-> <<>>]
  /\ aiSummary = [p \in Procs |-> <<>>]
  /\ attIdx = [p \in Procs |-> 0]
  /\ calls = <<>>
  /\ console = <<>>
  /\ InitWebhookIdle

SpecConcurrent == InitConcurrent /\ [][Next]_vars

----------------------------------------------------------------------------
(* The webhook handler, fetch, server.ts:182-241 *)

\* if (update.callback_query && update.callback_query.message)
callbackBranch(r) == r.cq \in {"noChat", "full"}

\* if (update.message?.text && update.message.chat)
messageBranch(r) ==
  /\ r.msg = "full"
  /\ (r.text = "string" /\ r.textValue # <<>>) \/ r.text = "nonString"

\* Reading the update throws a TypeError: update is null (189), message.chat is
\* undefined (190), message.text has no trim (208)
readThrows(r) ==
  \/ r.json = "null"
  \/ callbackBranch(r) /\ r.cq = "noChat"
  \/ ~callbackBranch(r) /\ messageBranch(r) /\ r.text = "nonString"

\* The payload compared without regard to case
isDismissIgnoringCase(data) == data \in {"dismiss", "Dismiss"}

\* if (update.callback_query.data === "dismiss")
isDismiss(data) == data = "dismiss"

\* The prefix test on the text as received, without trim()
isStartUntrimmed(textValue) == startsWith(textValue, StartCommand)

\* if (text.startsWith("/start")), text the trimmed message text
isStart(textValue) == startsWith(trim(textValue), StartCommand)

deleteMessageRequest(r) == [chat_id |-> r.cqChat, message_id |-> r.cqMsgId]

\* const userEmail = `tempmail+${chatId}@${domain}`
\* The address built from the magnitude of the chat id, its sign left out
userEmailOfMagnitude(chat, domain) ==
  <<"t", "e", "m", "p", "m", "a", "i", "l", "+">>
    \o NatToString(IF chat < 0 THEN 0 - chat ELSE chat) \o <<"@">> \o domain

userEmailOf(chat, domain) ==
  <<"t", "e", "m", "p", "m", "a", "i", "l", "+">> \o NumberToString(chat) \o <<"@">> \o domain

welcomeMsgOf(userEmail) ==
  <<"<b>Premium AI TempMail Bot</b>\n\nYour secure, disposable email address is active:\n\n<code>">>
    \o userEmail
    \o <<"</code>\n\n<i>Tap the address to copy. Messages and attachments will be instantly delivered here with an AI-generated summary.</i>\n\n<b>Powered by Cloudflare Agents</b>\n<b>Updates:</b> @drkingbd">>

welcomeRequest(r, domain) ==
  [chat_id |-> r.msgChat, text |-> welcomeMsgOf(userEmailOf(r.msgChat, domain)),
   parse_mode |-> "HTML"]

\* A handler that takes a non-2xx answer of its outbound call for a failure
statusAfterCallChecksOk(o) == IF o.rejected \/ ~ok(o.status) THEN 500 ELSE 200

\* The status fetch answers with once its outbound call has settled: the catch block
\* turns a rejection into 500, the Response of the call is not looked at
statusAfterCall(o) == IF o.rejected THEN 500 ELSE 200

Respond(status) ==
  /\ wpc' = "responded"
  /\ response' = status

Webhook == 0      \* the "by" of the calls the webhook handler issues

\* fetch up to its first outbound call, or to its Response
fetch ==
  /\ wpc = "idle"
  /\ LET r == request
     IN  IF ~(r.method = "POST" /\ r.pathname = "/webhook/telegram")
         THEN Respond(404) /\ UNCHANGED <<calls, console>>
         ELSE IF r.json = "invalid" \/ readThrows(r)
         THEN /\ Respond(500)
              /\ console' = Append(console,
                    ConsoleLine(Webhook, "error", "Failed to process webhook", 0))
              /\ UNCHANGED calls
         ELSE IF r.json = "object" /\ callbackBranch(r)
         THEN IF isDismiss(r.data)
              THEN /\ calls' = Append(calls,
                          Issued("deleteMessage", Webhook, deleteMessageRequest(r)))
                   /\ wpc' = "awaitDelete"
                   /\ UNCHANGED <<response, console>>
              ELSE Respond(200) /\ UNCHANGED <<calls, console>>
         ELSE IF r.json = "object" /\ messageBranch(r) /\ isStart(r.textValue)
         THEN /\ calls' = Append(calls,
                     Issued("sendMessage", Webhook, welcomeRequest(r, env.Domain)))
              /\ wpc' = "awaitWelcome"
              /\ UNCHANGED <<response, console>>
         ELSE Respond(200) /\ UNCHANGED <<calls, console>>
  /\ UNCHANGED <<env, request, emailVars>>

\* The callback branch without its return (203): after deleteMessage the handler
\* goes on to the message branch of the same update
OutboundSettledFallsThrough(api, o) ==
  IF /\ api = "deleteMessage" /\ ~o.rejected
     /\ messageBranch(request) /\ request.text = "string" /\ isStart(request.textValue)
  THEN /\ calls' = Append(Append(calls, Settled(api, Webhook,
                                   PendingCall(calls, Webhook).req, o)),
                          Issued("sendMessage", Webhook, welcomeRequest(request, env.Domain)))
       /\ wpc' = "awaitWelcome"
       /\ UNCHANGED <<response, console>>
  ELSE /\ calls' = Append(calls, Settled(api, Webhook, PendingCall(calls, Webhook).req, o))
       /\ console' = IF o.rejected
                      THEN Append(console,
                             ConsoleLine(Webhook, "error", "Failed to process webhook", 0))
                      ELSE console
       /\ Respond(statusAfterCall(o))

\* The awaited outbound call of fetch settles with o: the Response of line 203 or
\* 233, or the catch block of 234-237
OutboundSettled(api, o) ==
  /\ calls' = Append(calls, Settled(api, Webhook, PendingCall(calls, Webhook).req, o))
  /\ console' = IF o.rejected
                 THEN Append(console,
                        ConsoleLine(Webhook, "error", "Failed to process webhook", 0))
                 ELSE console
  /\ Respond(statusAfterCall(o))

DeleteSettles ==
  /\ wpc = "awaitDelete"
  /\ \E o \in FetchOutcomes : OutboundSettled("deleteMessage", o)
  /\ UNCHANGED <<env, request, emailVars>>

WelcomeSettles ==
  /\ wpc = "awaitWelcome"
  /\ \E o \in FetchOutcomes : OutboundSettled("sendMessage", o)
  /\ UNCHANGED <<env, request, emailVars>>

InitWebhook ==
  /\ InitEnv
  /\ email = [p \in Procs |-> NoEmail]
  /\ pc = [p \in Procs |-> "off"]
  /\ chatId = [p \in Procs |-> <<>>]
  /\ aiSummary = [p \in Procs |-> <<>>]
  /\ attIdx = [p \in Procs |-> 0]
  /\ calls = <<>>
  /\ console = <<>>
  /\ request \in Requests
  /\ wpc = "idle"
  /\ response = 0

NextWebhook == fetch \/ DeleteSettles \/ WelcomeSettles

SpecWebhook == InitWebhook /\ [][NextWebhook]_vars

----------------------------------------------------------------------------
(* Specification of provisioning followed by routing: a webhook event is handled,
   and an email sent to the address a delivered welcome shows is processed *)

\* The address a welcome shows between <code> and </code>
AddressShownIn(text) == SubSeq(text, 2, Len(text) - 1)

\* The welcomes Telegram accepted: the conversation has seen its address
DeliveredWelcomes ==
  { i \in 1..Len(calls) :
      /\ calls[i].by = Webhook /\ calls[i].ev = "call" /\ calls[i].api = "sendMessage"
      /\ \E j \in (i + 1)..Len(calls) :
           /\ calls[j].by = Webhook /\ calls[j].ev = "resolve" /\ ok(calls[j].status) }

\* export default email(message, env): routeAgentEmail hands a message for an issued
\* address to TempMailAgent.onEmail (run p)
routeAgentEmail(p) ==
  /\ \A q \in Procs : pc[q] = "off"
  /\ \E i \in DeliveredWelcomes, b \in { <<"h", "i">>, LongBody },
        atts \in StringsUpTo(AttachmentPool, 1) :
       email' = [email EXCEPT ![p] =
                   MkEmail(AddressShownIn(calls[i].req.text), <<>>, b, <<>>, atts)]
  /\ pc' = [pc EXCEPT ![p] = "start"]
  /\ UNCHANGED <<env, chatId, aiSummary, attIdx, calls, console, webhookVars>>

NextRoundTrip ==
  \/ fetch
  \/ DeleteSettles
  \/ WelcomeSettles
  \/ routeAgentEmail(1)
  \/ \E p \in Procs :
       \/ onEmail(p)
       \/ AiSettles(p)
       \/ TextSendSettles(p)
       \/ DocumentSettles(p)
       \/ NoticeSettles(p)

SpecRoundTrip == InitWebhook /\ [][NextRoundTrip]_vars

----------------------------------------------------------------------------
(* Reading the log of external calls *)

\* Positions in the log of the calls run p issued to api
CallsOf(p, api) ==
  { i \in 1..Len(calls) : calls[i].by = p /\ calls[i].ev = "call" /\ calls[i].api = api }

\* Positions in the log where a call of run p to api settled (resolved or rejected)
SettlesOf(p, api) ==
  { i \in 1..Len(calls) :
      calls[i].by = p /\ calls[i].ev \in {"resolve", "reject"} /\ calls[i].api = api }

TelegramCallsOf(p) == CallsOf(p, "sendMessage") \cup CallsOf(p, "sendDocument")

\* The text-send of the notification of run p: the sendMessage carrying messagePayload
NotificationCallsOf(p) ==
  LET messagePayload == messagePayloadOf(email[p], aiSummary[p])
  IN  { i \in CallsOf(p, "sendMessage") : calls[i].req.text = messagePayload }

\* The recipient address has a sub-address segment: "+", one character or more, "@"
HasSubAddress(to) ==
  \E i, j \in 1..Len(to) : to[i] = "+" /\ to[j] = "@" /\ j >= i + 2

\* A route was resolved and the credential is present
Routed(p) ==
  /\ pc[p] # "off"
  /\ HasSubAddress(email[p].to)
  /\ env.TELEGRAM_BOT_TOKEN # <<>>

Ended(p) == pc[p] \in {"dropped", "returned", "threwConfig", "threwFetch", "threwAI"}

\* The calls run p issued, in order, to api
RequestsOf(p, api) ==
  LET F[i \in 0..Len(calls)] ==
        IF i = 0 THEN <<>>
        ELSE IF i \in CallsOf(p, api) THEN Append(F[i - 1], calls[i].req)
        ELSE F[i - 1]
  IN  F[Len(calls)]

----------------------------------------------------------------------------
(* Claims *)

\* C1: for every email with a resolved route and the credential present, the
\* notification text-send is the first Telegram call and is made exactly once, every
\* sendDocument call comes after that text-send has settled, the attachment sends are
\* attempted whatever the outcome of the text-send was, and no sendDocument call is
\* made for an email without attachments.
C1_TextSendThenAttachments ==
  \A p \in Procs : Routed(p) =>
    LET N == NotificationCallsOf(p)
        D == CallsOf(p, "sendDocument")
        S == SettlesOf(p, "sendMessage")
    IN  /\ pc[p] \notin {"start", "awaitAI"} =>
             /\ Cardinality(N) = 1
             /\ Min(TelegramCallsOf(p)) \in N
        /\ \A d \in D : \E n \in N, t \in S : n < t /\ t < d
        /\ (pc[p] \notin {"start", "awaitAI", "awaitText"} /\ email[p].attachments # <<>>)
             => D # {}
        /\ email[p].attachments = <<>> => D = {}

\* C2: for an email with N attachments and a resolved route, once onEmail has ended
\* sendDocument has been called exactly N times, once per attachment in input order;
\* each of these calls settles before the next is issued; a failed send of one
\* attachment does not keep the later ones from being attempted.
C2_OneSendPerAttachmentInOrder ==
  \A p \in Procs : Routed(p) =>
    LET D == CallsOf(p, "sendDocument")
        S == SettlesOf(p, "sendDocument")
    IN  /\ Ended(p) =>
             RequestsOf(p, "sendDocument") =
               [i \in 1..Len(email[p].attachments) |->
                  sendDocumentRequest(chatId[p], email[p].attachments[i])]
        /\ \A d1, d2 \in D : d1 < d2 => \E t \in S : d1 < t /\ t < d2
        /\ \A i \in 1..Len(email[p].attachments) :
             (Cardinality(S) >= i /\ pc[p] # "awaitNotice" /\ i < Len(email[p].attachments))
               => Cardinality(D) >= i + 1

\* The calls of run p that follow the settling at position t of a sendDocument call
\* and precede its next sendDocument call: the calls made for that attachment
FollowUpCalls(p, t) ==
  { i \in 1..Len(calls) :
      /\ calls[i].by = p /\ calls[i].ev = "call" /\ i > t
      /\ \A d \in CallsOf(p, "sendDocument") : d > t => i < d }

\* The attachment whose sendDocument call settled at position t
AttachmentAt(p, t) ==
  email[p].attachments[Cardinality({ d \in CallsOf(p, "sendDocument") : d < t })]

\* C3 as stated: a sendDocument answered 413 is followed by exactly one sendMessage
\* to the same chat whose text contains the attachment's file name; any other outcome
\* of sendDocument is followed by no call for that attachment.
C3_NoticeContainsFileName ==
  \A p \in Procs : \A t \in SettlesOf(p, "sendDocument") :
    IF calls[t].ev = "resolve" /\ calls[t].status = PayloadTooLarge
    THEN /\ Cardinality(FollowUpCalls(p, t)) = 1
         /\ \A i \in FollowUpCalls(p, t) :
              /\ calls[i].api = "sendMessage"
              /\ calls[i].req.chat_id = calls[t].req.chat_id
              /\ Contains(calls[i].req.text, AttachmentAt(p, t).filename)
    ELSE FollowUpCalls(p, t) = {}

\* C3 amended: a sendDocument answered 413 is followed by exactly one sendMessage to
\* the same chat whose text contains the HTML-escaped file name under which the
\* attachment was sent (unnamed_attachment.bin when it has none); any other outcome of
\* sendDocument is followed by no call for that attachment.
C3_NoticeContainsEscapedFileName ==
  \A p \in Procs : \A t \in SettlesOf(p, "sendDocument") :
    IF calls[t].ev = "resolve" /\ calls[t].status = PayloadTooLarge
    THEN /\ Cardinality(FollowUpCalls(p, t)) = 1
         /\ \A i \in FollowUpCalls(p, t) :
              /\ calls[i].api = "sendMessage"
              /\ calls[i].req.chat_id = calls[t].req.chat_id
              /\ Contains(calls[i].req.text,
                          escapeHtml(orElse(AttachmentAt(p, t).filename,
                                            <<"unnamed_attachment.bin">>)))
    ELSE FollowUpCalls(p, t) = {}

\* A 413 on the second attachment, whose name needs escaping, after a failed first
\* one, and a non-413 failure elsewhere in the same run
C3_Witness ==
  \E t1, t2 \in SettlesOf(1, "sendDocument") :
    /\ t1 < t2
    /\ calls[t1].status = 400
    /\ calls[t2].status = PayloadTooLarge
    /\ AttachmentAt(1, t2).filename = <<"a", "&", "b">>
    /\ FollowUpCalls(1, t2) # {}

\* C4: when the recipient address has no sub-address segment, onEmail makes no
\* external call at all and ends by returning, never by throwing, whatever the body,
\* the attachments and the configuration are.
C4_NoRouteNoCalls ==
  \A p \in Procs : (pc[p] # "off" /\ ~HasSubAddress(email[p].to)) =>
    /\ \A i \in 1..Len(calls) : calls[i].by # p
    /\ pc[p] \in {"start", "dropped"}

\* An email without a route, with a long body and an attachment, dropped while the
\* credential is missing
C4_Witness ==
  /\ pc[1] = "dropped"
  /\ ~HasSubAddress(email[1].to)
  /\ env.TELEGRAM_BOT_TOKEN = <<>>
  /\ email[1].attachments # <<>>
  /\ Len(cleanTextBodyOf(email[1])) > SummaryMinLen

\* to is local+TOKEN@domain with "+" at i and "@" at j: TOKEN is not empty and "@"
\* occurs nowhere else in the address
SubAddressed(to, i, j) ==
  /\ i \in 1..Len(to) /\ j \in 1..Len(to)
  /\ to[i] = "+" /\ to[j] = "@" /\ j >= i + 2
  /\ \A k \in 1..Len(to) : to[k] = "@" => k = j

\* C5 as stated: for every address local+TOKEN@domain the Resolver returns exactly
\* TOKEN, the text between "+" and "@"; for every address without a "+...@" segment
\* it signals no-route.
C5_ResolverReturnsToken ==
  \A p \in Procs : pc[p] \notin {"off", "start"} =>
    LET to == email[p].to
    IN  /\ \A i, j \in 1..Len(to) : SubAddressed(to, i, j) =>
              pc[p] # "dropped" /\ chatId[p] = SubSeq(to, i + 1, j - 1)
        /\ ~HasSubAddress(to) => pc[p] = "dropped"

\* C5 amended: for every address local+TOKEN@domain with one "@", a local part
\* without "+" and a non-empty TOKEN without line break, the Resolver returns TOKEN
\* in lower case (the text between the first "+" and the "@" of the lowercased
\* address); for every address without a "+...@" segment it signals no-route.
C5_ResolverReturnsLowercasedFirstPlusToken ==
  \A p \in Procs : pc[p] \notin {"off", "start"} =>
    LET to == email[p].to
    IN  /\ \A i, j \in 1..Len(to) :
              ( /\ SubAddressed(to, i, j)
                /\ \A k \in 1..(i - 1) : to[k] # "+"
                /\ \A k \in (i + 1)..(j - 1) : to[k] \notin {"\n", "\r"} )
              => /\ pc[p] # "dropped"
                 /\ chatId[p] = toLowerCase(SubSeq(to, i + 1, j - 1))
        /\ ~HasSubAddress(to) => pc[p] = "dropped"

\* The Resolver has run on an address whose token has an upper-case letter and a "+"
C5_Witness ==
  /\ email[1].to = <<"+", "B", "+", "@">>
  /\ chatId[1] = <<"b", "+">>
  /\ pc[1] = "awaitAI"

\* The summarizer failed: AI.run rejected or answered with a malformed response
AiFailed(p) ==
  \E a \in SettlesOf(p, "AI.run") : calls[a].out.kind \in {"reject", "nonString"}

\* C6 as stated: for a normalized text shorter than 20 characters the summary is
\* "No content available to summarize." and AI.run is not called; for a text of 20
\* characters or more AI.run is called, and when it fails the summary is "Automated
\* summary temporarily unavailable.".
C6_ThresholdAtOrAbove ==
  \A p \in Procs : (Routed(p) /\ pc[p] # "start") =>
    LET n == Len(cleanTextBodyOf(email[p]))
    IN  /\ n < SummaryMinLen =>
              CallsOf(p, "AI.run") = {} /\ aiSummary[p] = NoContentSummary
        /\ n >= SummaryMinLen =>
              /\ Cardinality(CallsOf(p, "AI.run")) = 1
              /\ AiFailed(p) => aiSummary[p] = UnavailableSummary

\* C6 amended: for a normalized text of at most 20 characters the summary is "No
\* content available to summarize." and AI.run is not called; for a text longer than
\* 20 characters AI.run is called, and when it fails the summary is "Automated summary
\* temporarily unavailable.".
C6_ThresholdStrictlyAbove ==
  \A p \in Procs : (Routed(p) /\ pc[p] # "start") =>
    LET n == Len(cleanTextBodyOf(email[p]))
    IN  /\ n <= SummaryMinLen =>
              CallsOf(p, "AI.run") = {} /\ aiSummary[p] = NoContentSummary
        /\ n > SummaryMinLen =>
              /\ Cardinality(CallsOf(p, "AI.run")) = 1
              /\ AiFailed(p) => aiSummary[p] = UnavailableSummary

\* A body of 21 characters between blanks whose summarization failed
C6_Witness ==
  /\ Len(email[1].text) > SummaryMinLen + 1
  /\ Len(cleanTextBodyOf(email[1])) = SummaryMinLen + 1
  /\ AiFailed(1)
  /\ aiSummary[1] = UnavailableSummary

\* C7: whatever AI.run settles with, no error leaves the summarizer and the
\* notification text-send is issued after the summarizer step, for every email with a
\* resolved route and the credential present.
C7_SummarizerNeverPropagates ==
  \A p \in Procs : (Routed(p) /\ pc[p] \notin {"start", "awaitAI"}) =>
    LET N == NotificationCallsOf(p)
    IN  /\ pc[p] # "threwAI"
        /\ N # {}
        /\ \A a \in SettlesOf(p, "AI.run") : a + 1 \in N

\* AI.run rejected and the notification is on its way
C7_Witness ==
  /\ pc[1] = "awaitText"
  /\ \E a \in SettlesOf(1, "AI.run") : calls[a].ev = "reject"

\* C8: the summary put in the notification is never empty: it is the trimmed,
\* non-empty output of AI.run or one of the three fixed fallback strings.
C8_SummaryNonEmpty ==
  \A p \in Procs : (Routed(p) /\ pc[p] \notin {"start", "awaitAI", "threwAI"}) =>
    /\ aiSummary[p] # <<>>
    /\ \/ aiSummary[p] \in {NoContentSummary, NoResultSummary, UnavailableSummary}
       \/ \E a \in SettlesOf(p, "AI.run") :
            calls[a].out.kind = "text" /\ aiSummary[p] = trim(calls[a].out.response)

\* The webhook endpoint was called: POST /webhook/telegram
WebhookCall(r) == r.method = "POST" /\ r.pathname = "/webhook/telegram"

\* Positions in the log of the calls the webhook handler issued
WebhookCalls == { i \in 1..Len(calls) : calls[i].by = Webhook /\ calls[i].ev = "call" }

\* C9 as stated: every POST /webhook/telegram whose body parses as JSON is answered
\* 200, 500 is answered only when the body fails to parse, and any other path or
\* method is answered 404.
C9_ParsedEventsAnswered200 ==
  wpc = "responded" =>
    IF WebhookCall(request)
    THEN /\ request.json # "invalid" => response = 200
         /\ response = 500 => request.json = "invalid"
    ELSE response = 404

\* The update is malformed: it is null, its callback_query.message has no chat, or
\* (no callback message present) its message has a chat and a text that is no string
Malformed(r) ==
  \/ r.json = "null"
  \/ r.json = "object" /\ r.cq = "noChat"
  \/ r.json = "object" /\ r.cq \in {"absent", "noMessage"}
       /\ r.msg = "full" /\ r.text = "nonString"

\* C9 amended: a POST /webhook/telegram whose body parses as JSON is answered 200
\* whatever branch is taken, whether or not its shape or payload is recognized and
\* whatever HTTP status its outbound call is answered with, unless handling it
\* throws; 500 is answered exactly when the body fails to parse, when the update is
\* malformed (null, a callback message without chat, a message text that is no
\* string) or when the outbound call itself rejects; any other path or method is
\* answered 404.
C9_AnswersByOutcome ==
  wpc = "responded" =>
    IF WebhookCall(request)
    THEN LET failed == \/ request.json = "invalid"
                       \/ Malformed(request)
                       \/ \E i \in 1..Len(calls) :
                            calls[i].by = Webhook /\ calls[i].ev = "reject"
         IN  response = IF failed THEN 500 ELSE 200
    ELSE response = 404

\* A dismiss whose deleteMessage call was answered 400, acknowledged with 200
C9_Witness ==
  /\ wpc = "responded"
  /\ response = 200
  /\ \E i \in 1..Len(calls) :
       calls[i].api = "deleteMessage" /\ calls[i].ev = "resolve" /\ calls[i].status = 400

\* C10: a callback event with conversation id c and message id m makes, when its
\* payload is "dismiss", exactly one outbound call, deleteMessage for (c, m); with any
\* other payload it makes no outbound call and is answered 200.
C10_DismissDeletesOnce ==
  (wpc # "idle" /\ WebhookCall(request) /\ request.json = "object" /\ request.cq = "full") =>
    IF request.data = "dismiss"
    THEN /\ Cardinality(WebhookCalls) = 1
         /\ \A i \in WebhookCalls :
              /\ calls[i].api = "deleteMessage"
              /\ calls[i].req = [chat_id |-> request.cqChat, message_id |-> request.cqMsgId]
    ELSE /\ WebhookCalls = {}
         /\ wpc = "responded" /\ response = 200

\* A dismiss for chat -100, message 99, in an update that also carries a /start
\* message: one deleteMessage, answered
C10_Witness ==
  /\ wpc = "responded"
  /\ request.data = "dismiss" /\ request.cq = "full" /\ request.cqChat = -100
  /\ request.msg = "full" /\ request.textValue = StartCommand
  /\ \E i \in WebhookCalls : calls[i].api = "deleteMessage"

\* A text message event from a conversation: a message with chat.id and a string
\* text, in an update that carries no callback message
TextMessageEvent(r) ==
  /\ WebhookCall(r) /\ r.json = "object"
  /\ r.cq \in {"absent", "noMessage"}
  /\ r.msg = "full" /\ r.text = "string"

\* The welcome of conversation c: one sendMessage to c whose text contains
\* tempmail+c@DOMAIN, sent without reply_markup
WelcomeSentOnce(r) ==
  /\ Cardinality(WebhookCalls) = 1
  /\ \A i \in WebhookCalls :
       /\ calls[i].api = "sendMessage"
       /\ calls[i].req.chat_id = r.msgChat
       /\ Contains(calls[i].req.text,
                   <<"t", "e", "m", "p", "m", "a", "i", "l", "+">>
                     \o NumberToString(r.msgChat) \o <<"@">> \o env.Domain)
       /\ "reply_markup" \notin DOMAIN calls[i].req

\* C11 as stated: a text message from conversation c whose text starts with "/start"
\* causes exactly one text-send to c, containing tempmail+c@DOMAIN and without the
\* dismiss affordance; a text message whose text does not start with "/start" causes
\* no outbound call.
C11_StartSendsWelcome ==
  (wpc # "idle" /\ TextMessageEvent(request)) =>
    IF startsWith(request.textValue, StartCommand)
    THEN WelcomeSentOnce(request)
    ELSE WebhookCalls = {}

\* C11 amended: a text message from conversation c whose text, once trimmed of
\* surrounding white space, starts with "/start" causes exactly one text-send to c,
\* containing tempmail+c@DOMAIN and without the dismiss affordance; a text message
\* whose trimmed text does not start with "/start" causes no outbound call.
C11_TrimmedStartSendsWelcome ==
  (wpc # "idle" /\ TextMessageEvent(request)) =>
    IF startsWith(trim(request.textValue), StartCommand)
    THEN WelcomeSentOnce(request)
    ELSE WebhookCalls = {}

\* " /start x" from the group chat -100 was answered with its welcome
C11_Witness ==
  /\ wpc = "responded"
  /\ TextMessageEvent(request)
  /\ request.textValue = <<" ">> \o StartCommand \o <<" ", "x">>
  /\ request.msgChat = -100
  /\ \E i \in WebhookCalls :
       Contains(calls[i].req.text,
                <<"+", "-", "1", "0", "0", "@">> \o env.Domain)

\* C12 as stated: when the messaging credential is absent, an email-processing
\* attempt raises a configuration error and makes no external call (no summarizer
\* call, no text-send, no send-attachment) before raising.
C12_NoCredentialRaises ==
  \A p \in Procs : (pc[p] \notin {"off", "start"} /\ env.TELEGRAM_BOT_TOKEN = <<>>) =>
    /\ pc[p] = "threwConfig"
    /\ \A i \in 1..Len(calls) : calls[i].by # p

\* C12 amended: when the messaging credential is absent, an email-processing attempt
\* whose recipient address carries a sub-address raises a configuration error, an
\* attempt whose address carries none is dropped without raising, and neither makes
\* an external call.
C12_NoCredentialRaisesOnceRouted ==
  \A p \in Procs : (pc[p] \notin {"off", "start"} /\ env.TELEGRAM_BOT_TOKEN = <<>>) =>
    /\ pc[p] = IF HasSubAddress(email[p].to) THEN "threwConfig" ELSE "dropped"
    /\ \A i \in 1..Len(calls) : calls[i].by # p

\* A routed email with a body long enough to summarize and an attachment, refused
\* for want of the credential
C12_Witness ==
  /\ pc[1] = "threwConfig"
  /\ env.TELEGRAM_BOT_TOKEN = <<>>
  /\ HasSubAddress(email[1].to)
  /\ chatId[1] = <<"7">>
  /\ calls = <<>>
  /\ \/ email[1].attachments # <<>>
     \/ Len(cleanTextBodyOf(email[1])) > SummaryMinLen

\* What a notification shows between <pre> and </pre>
PreBlockOf(text) ==
  LET open == CHOOSE i \in 1..Len(text) : text[i] = "</i>\n\n\n<b>Message:</b>\n<pre>"
  IN  SubSeq(text, open + 1, Len(text) - 1)

\* C13: for every trimmed body text of length at most 500 the snippet equals that
\* text with no truncation marker; for every longer text the snippet is exactly the
\* first 500 characters followed by the marker "...\n[Message Truncated]". The
\* snippet is read off the text-send, where it stands escaped between <pre> and
\* </pre>; an empty snippet is shown as "No readable text content.".
C13_SnippetTruncation ==
  \A p \in Procs : \A i \in CallsOf(p, "sendMessage") :
    LET text == trim(IF email[p].text # <<>> THEN email[p].text
                     ELSE stripTags(email[p].html))
        shown == PreBlockOf(calls[i].req.text)
        firstChars == [k \in 1..500 |-> text[k]]
    IN  ((\A j \in CallsOf(p, "sendMessage") : j >= i) /\ text # <<>>) =>
          IF Len(text) <= 500
          THEN shown = escapeHtml(text)
          ELSE shown = escapeHtml(firstChars) \o <<"...\n[Message Truncated]">>

\* A body of 501 characters between blanks was sent cut to 500 with the marker
C13_Witness ==
  /\ pc[1] = "awaitText"
  /\ Len(email[1].text) = 501 + 2 * MaxPad
  /\ \E i \in CallsOf(1, "sendMessage") :
       /\ Len(PreBlockOf(calls[i].req.text)) = 501
       /\ PreBlockOf(calls[i].req.text)[501] = "...\n[Message Truncated]"

\* What a notification shows as the subject, between <i> and </i>
SubjectShownIn(text) ==
  LET open == CHOOSE i \in 1..Len(text) : text[i] = "</code>\n<b>Subject:</b> <i>"
      close == CHOOSE i \in 1..Len(text) : text[i] = "</i>\n<b>Attachments:</b> "
  IN  SubSeq(text, open + 1, close - 1)

\* The entity of a character, a character without one standing for itself
EntityOf(c) ==
  CASE c = "&" -> <<"&", "a", "m", "p", ";">>
    [] c = "<" -> <<"&", "l", "t", ";">>
    [] c = ">" -> <<"&", "g", "t", ";">>
    [] c = "\"" -> <<"&", "q", "u", "o", "t", ";">>
    [] c = "'" -> <<"&", "#", "0", "3", "9", ";">>
    [] OTHER -> <<c>>

\* The characters of s, each replaced by its entity, in order
RECURSIVE EachByEntity(_)
EachByEntity(s) ==
  IF s = <<>> THEN <<>> ELSE EntityOf(Head(s)) \o EachByEntity(Tail(s))

\* C14: escapeHtml replaces every occurrence of & < > " ' in its input with the
\* corresponding entity and leaves all other characters unchanged and in order, so
\* its output contains no raw < > " or ' and every & in it begins one of the five
\* entities. Read off the subject of the text-send, for every subject over the
\* alphabet.
C14_EscapeHtmlReplacesAll ==
  \A p \in Procs : \A i \in CallsOf(p, "sendMessage") :
    ((\A j \in CallsOf(p, "sendMessage") : j >= i) /\ email[p].subject # <<>>) =>
      LET out == SubjectShownIn(calls[i].req.text)
      IN  /\ out = EachByEntity(email[p].subject)
          /\ \A k \in 1..Len(out) :
               /\ out[k] \notin {"<", ">", "\"", "'"}
               /\ out[k] = "&" =>
                    \E c \in {"&", "<", ">", "\"", "'"} :
                      startsWith(SubSeq(out, k, Len(out)), EntityOf(c))

\* The subject <&' was sent as &lt;&amp;&#039;
C14_Witness ==
  /\ email[1].subject = <<"<", "&", "'">>
  /\ \E i \in CallsOf(1, "sendMessage") :
       SubjectShownIn(calls[i].req.text) =
         <<"&", "l", "t", ";", "&", "a", "m", "p", ";", "&", "#", "0", "3", "9", ";">>

\* Run p went past routing: it neither waits to start nor dropped its email
PastRouting(p) == pc[p] \notin {"off", "start", "dropped"}

\* C15 as stated: whenever onEmail proceeds past routing, the token used as chat_id
\* is non-empty and is the sub-address segment of the recipient address: it contains
\* no "@" and the address has the form localpart+TOKEN@domain with exactly that TOKEN.
C15_TokenIsSubAddressSegment ==
  \A p \in Procs : PastRouting(p) =>
    LET to == email[p].to
    IN  /\ chatId[p] # <<>>
        /\ \A k \in 1..Len(chatId[p]) : chatId[p][k] # "@"
        /\ \E i, j \in 1..Len(to) :
             to[i] = "+" /\ to[j] = "@" /\ SubSeq(to, i + 1, j - 1) = chatId[p]

\* C15 amended: whenever onEmail proceeds past routing, the token used as chat_id is
\* non-empty, has no line break and is the text between a "+" and a later "@" of the
\* lowercased recipient address; it contains no "@" when the address has a single "@".
C15_TokenIsLowercasedSegment ==
  \A p \in Procs : PastRouting(p) =>
    LET to == toLowerCase(email[p].to)
    IN  /\ chatId[p] # <<>>
        /\ \A k \in 1..Len(chatId[p]) : chatId[p][k] \notin {"\n", "\r"}
        /\ \E i, j \in 1..Len(to) :
             to[i] = "+" /\ to[j] = "@" /\ SubSeq(to, i + 1, j - 1) = chatId[p]
        /\ Cardinality({ k \in 1..Len(to) : to[k] = "@" }) = 1 =>
             \A k \in 1..Len(chatId[p]) : chatId[p][k] # "@"

\* The run for a+B@ went on with chat_id b and sent its notification there
C15_Witness ==
  /\ email[1].to = <<"a", "+", "B", "@">>
  /\ chatId[1] = <<"b">>
  /\ \E i \in CallsOf(1, "sendMessage") : calls[i].req.chat_id = <<"b">>

\* The entries of run p in the log, by position
EntriesOf(p) == { i \in 1..Len(calls) : calls[i].by = p }

\* How many calls of run p are in flight after the first n entries of the log
InFlight(p, n) ==
  Cardinality({ i \in EntriesOf(p) : i <= n /\ calls[i].ev = "call" })
    - Cardinality({ i \in EntriesOf(p) : i <= n /\ calls[i].ev # "call" })

\* The oversize notices of run p: its text-sends after the first
NoticeCallsOf(p) ==
  { k \in CallsOf(p, "sendMessage") : \E i \in CallsOf(p, "sendMessage") : i < k }

\* C16: the oversize notice for attachment i is issued only after attachment i's
\* file-transfer call has returned, and it completes before the file-transfer call
\* for attachment i+1 begins; at no point are two outbound calls of the same email's
\* processing in flight at once.
C16_NoticeNeverOverlaps ==
  \A p \in Procs :
    /\ \A n \in 0..Len(calls) : InFlight(p, n) \in {0, 1}
    /\ \A k \in NoticeCallsOf(p) :
         /\ \E d \in SettlesOf(p, "sendDocument") :
              /\ d < k
              /\ calls[d].ev = "resolve"
              /\ \A i \in EntriesOf(p) : ~(d < i /\ i < k)
         /\ \A j \in CallsOf(p, "sendDocument") : j > k =>
              \E s \in SettlesOf(p, "sendMessage") : k < s /\ s < j

\* The first of two attachments was refused as too large, its notice was sent and
\* settled, and the transfer of the second is in flight
C16_Witness ==
  /\ pc[1] = "awaitDoc"
  /\ attIdx[1] = 2
  /\ NoticeCallsOf(1) # {}
  /\ \E d \in SettlesOf(1, "sendDocument") : calls[d].status = PayloadTooLarge
  /\ InFlight(1, Len(calls)) = 1

\* C17: every email-processing run terminates, every operation having run to
\* completion or to a caught failure, with no failure of an outbound call
\* (summarizer, text-send, file-transfer) escaping the handler. A run makes at most
\* one summarizer call, one text-send and two calls per attachment, each settled by
\* one step, so it ends once its calls have returned; what remains is that it never
\* ends by the failure of a call leaving onEmail.
C17_NoCallFailureEscapes ==
  \A p \in Procs : pc[p] \notin {"threwFetch", "threwAI"}

\* The decimal string of the conversation identifiers of the model
DecimalOf(c) ==
  CASE c = 7 -> <<"7">>
    [] c = -100 -> <<"-", "1", "0", "0">>

\* C18: for every conversation identifier c, the address issued by "/start" for c,
\* when later used as an email's recipient address, is resolved by onEmail to a
\* routing token equal to the string form of c, so the notification (and every
\* Telegram call of the run) is sent to the conversation that requested the address.
C18_IssuedAddressRoutesBack ==
  \A p \in Procs : pc[p] \notin {"off", "start"} =>
    /\ pc[p] # "dropped"
    /\ chatId[p] = DecimalOf(request.msgChat)
    /\ \A i \in TelegramCallsOf(p) : calls[i].req.chat_id = DecimalOf(request.msgChat)

\* The group chat -100 asked for its address and the notification of an email sent
\* to it went to chat_id "-100"
C18_Witness ==
  /\ request.msgChat = -100
  /\ email[1].to = <<"t", "e", "m", "p", "m", "a", "i", "l", "+", "-", "1", "0", "0", "@", "d">>
  /\ \E i \in CallsOf(1, "sendMessage") : calls[i].req.chat_id = <<"-", "1", "0", "0">>

\* The sub-address segment of the recipient address of run p, which has one "+" and
\* one "@"
OwnToken(p) ==
  LET to == email[p].to
      plus == CHOOSE i \in 1..Len(to) : to[i] = "+"
      at == CHOOSE j \in 1..Len(to) : to[j] = "@"
  IN  SubSeq(to, plus + 1, at - 1)

\* The file names of the attachments of run p, in input order
OwnFileNames(p) ==
  [k \in 1..Len(email[p].attachments) |->
     IF email[p].attachments[k].filename = <<>> THEN <<"unnamed_attachment.bin">>
     ELSE email[p].attachments[k].filename]

\* C19: when two emails (to the same or different tokens) are processed concurrently
\* with their steps interleaved at the awaited calls, every outbound call made for an
\* email carries that email's own routing token as chat_id and content derived only
\* from that email (its body in the summarizer request and in the notification, its
\* file names in the transfers and notices), and each email's own text-send precedes
\* all of its own attachment sends, which stay in its own input order.
C19_RunsDoNotInterfere ==
  \A p \in Procs :
    LET docs == RequestsOf(p, "sendDocument")
        names == OwnFileNames(p)
    IN  /\ \A i \in TelegramCallsOf(p) : calls[i].req.chat_id = OwnToken(p)
        /\ \A i \in CallsOf(p, "AI.run") : calls[i].req.user = email[p].text
        /\ \A i \in CallsOf(p, "sendMessage") :
             IF i \in NoticeCallsOf(p)
             THEN \E k \in 1..Len(names) :
                    Contains(calls[i].req.text, EachByEntity(names[k]))
             ELSE PreBlockOf(calls[i].req.text) = email[p].text
        /\ Len(docs) <= Len(names)
        /\ \A k \in 1..Len(docs) : docs[k].document = names[k]
        /\ \A d \in CallsOf(p, "sendDocument") :
             \E m \in CallsOf(p, "sendMessage") : m < d

\* Both runs have sent an attachment to their own chats, the transfer of run 2 issued
\* between the text-send and the transfer of run 1
C19_Witness ==
  /\ OwnToken(1) # OwnToken(2)
  /\ \E m1 \in CallsOf(1, "sendMessage"), d2 \in CallsOf(2, "sendDocument"),
        d1 \in CallsOf(1, "sendDocument") :
       /\ m1 < d2 /\ d2 < d1
       /\ calls[d1].req.chat_id = <<"7">>
       /\ calls[d2].req.chat_id = <<"8">>

\* C20: each inbound webhook event triggers at most one outbound API call: an update
\* carrying both a callback_query (with its message) and a message text starting
\* with "/start" is handled by the callback branch only, so the welcome message is
\* not sent for it.
C20_AtMostOneCallPerEvent ==
  /\ Cardinality(WebhookCalls) <= 1
  /\ ( /\ WebhookCall(request) /\ request.json = "object"
       /\ request.cq = "full"
       /\ request.msg = "full" /\ request.text = "string"
       /\ startsWith(request.textValue, StartCommand) )
     => \A i \in WebhookCalls :
          /\ calls[i].api = "deleteMessage"
          /\ request.data = "dismiss"

\* An update with a callback that is no dismiss and a /start message was answered
\* without any call, and one with a dismiss after its single deleteMessage was accepted
C20_Witness ==
  /\ wpc = "responded" /\ response = 200
  /\ request.cq = "full" /\ request.msg = "full" /\ request.textValue = StartCommand
  /\ \/ request.data = "other" /\ WebhookCalls = {}
     \/ /\ request.data = "dismiss"
        /\ Cardinality(WebhookCalls) = 1
        /\ \E j \in 1..Len(calls) : calls[j].ev = "resolve" /\ calls[j].status = 200

====
